---------------------------- MODULE Spec2Model ----------------------------
(***************************************************************************)
(* Model of the honeypot request handler of src/main.py: the per-session  *)
(* record, the pattern extractor, the intel merge, the stop conditions,    *)
(* the report callback and the session store.                              *)
(*                                                                         *)
(* A text is a sequence of one-character strings, so that the regular      *)
(* expressions of extract_intel and the substring tests of the trigger     *)
(* check are computed on the characters as the code computes them.         *)
(***************************************************************************)
EXTENDS Integers, Sequences, FiniteSets, TLC

(***************************************************************************)
(* Characters and the character classes of Python's re module (ASCII).     *)
(***************************************************************************)
Digits == {"0", "1", "2", "3", "4", "5", "6", "7", "8", "9"}

LowerLetters == <<"a", "b", "c", "d", "e", "f", "g", "h", "i", "j", "k", "l", "m",
                  "n", "o", "p", "q", "r", "s", "t", "u", "v", "w", "x", "y", "z">>

UpperLetters == <<"A", "B", "C", "D", "E", "F", "G", "H", "I", "J", "K", "L", "M",
                  "N", "O", "P", "Q", "R", "S", "T", "U", "V", "W", "X", "Y", "Z">>

Range(f) == {f[i] : i \in DOMAIN f}

\* [a-zA-Z]
Alpha == Range(LowerLetters) \cup Range(UpperLetters)

\* \s
Whitespace == {" ", "\t", "\n"}

\* \w, the class that decides \b
WordChars == Alpha \cup Digits \cup {"_"}

\* [a-zA-Z0-9.\-_]
HandleChars == Alpha \cup Digits \cup {".", "-", "_"}

\* [-\s]
SepChars == {"-"} \cup Whitespace

\* str.lower() on one character
LowerChar(c) ==
    IF c \in Range(UpperLetters)
    THEN LowerLetters[CHOOSE i \in DOMAIN UpperLetters : UpperLetters[i] = c]
    ELSE c

\* str.lower()
Lower(s) == [i \in DOMAIN s |-> LowerChar(s[i])]

\* s[i:].startswith(pat), i counted from 1
StartsWithAt(s, i, pat) ==
    /\ i + Len(pat) - 1 <= Len(s)
    /\ \A k \in 1..Len(pat) : s[i + k - 1] = pat[k]

\* Python's  pat in s
Contains(s, pat) == \E i \in 1..(Len(s) + 1) : StartsWithAt(s, i, pat)

\* the first position >= i whose character is outside class (Len(s)+1 if none)
RECURSIVE RunEnd(_, _, _)
RunEnd(s, i, class) ==
    IF i > Len(s) \/ s[i] \notin class THEN i ELSE RunEnd(s, i + 1, class)

\* re.sub(r'\s+', ' ', text): every run of whitespace becomes one space
RECURSIVE CollapseWs(_, _)
CollapseWs(s, i) ==
    IF i > Len(s) THEN <<>>
    ELSE IF s[i] \in Whitespace
         THEN <<" ">> \o CollapseWs(s, RunEnd(s, i, Whitespace))
         ELSE <<s[i]>> \o CollapseWs(s, i + 1)

\* str.strip()
RECURSIVE Strip(_)
Strip(s) ==
    IF s = <<>> THEN s
    ELSE IF s[1] \in Whitespace THEN Strip(Tail(s))
    ELSE IF s[Len(s)] \in Whitespace THEN Strip(SubSeq(s, 1, Len(s) - 1))
    ELSE s

\* main.py line 73
text_clean(text) == Strip(CollapseWs(text, 1))

\* re.findall for a pattern without groups: ends[i] is the position just after
\* the match that starts at i, or 0 when the pattern does not match at i. The
\* scan goes left to right and resumes after each match.
RECURSIVE FindAll(_, _, _)
FindAll(s, ends, i) ==
    IF i > Len(s) THEN {}
    ELSE IF ends[i] > i
         THEN {SubSeq(s, i, ends[i] - 1)} \cup FindAll(s, ends, ends[i])
         ELSE FindAll(s, ends, i + 1)


(***************************************************************************)
(* extract_intel (main.py lines 71-109).                                   *)
(***************************************************************************)

\* [a-zA-Z0-9.\-_]{2,}@[a-zA-Z]{2,} at position i. "@" is outside the first
\* class, so the first part can only be the whole run of class characters.
UpiEnd(s, i) ==
    LET e1 == RunEnd(s, i, HandleChars) IN
    IF e1 - i >= 2 /\ e1 <= Len(s) /\ s[e1] = "@"
    THEN LET e2 == RunEnd(s, e1 + 1, Alpha) IN
         IF e2 - (e1 + 1) >= 2 THEN e2 ELSE 0
    ELSE 0

\* the end of \S+ from position i (i itself when no \S is there)
RECURSIVE NonSpaceEnd(_, _)
NonSpaceEnd(s, i) ==
    IF i > Len(s) \/ s[i] \in Whitespace THEN i ELSE NonSpaceEnd(s, i + 1)

\* https?://\S+|www\.\S+ at position i
LinkEnd(s, i) ==
    LET j == IF StartsWithAt(s, i, <<"h", "t", "t", "p", "s">>) THEN i + 5 ELSE i + 4
        k == j + 3
    IN  IF /\ StartsWithAt(s, i, <<"h", "t", "t", "p">>)
           /\ StartsWithAt(s, j, <<":", "/", "/">>)
           /\ NonSpaceEnd(s, k) > k
        THEN NonSpaceEnd(s, k)
        ELSE IF /\ StartsWithAt(s, i, <<"w", "w", "w", ".">>)
                /\ NonSpaceEnd(s, i + 4) > i + 4
             THEN NonSpaceEnd(s, i + 4)
             ELSE 0

\* (?:\d[-\s]?){n} from position j: the position after it, or 0. A separator
\* after a digit is always taken: the next thing wanted is a digit.
RECURSIVE DigitGroups(_, _, _)
DigitGroups(s, j, n) ==
    IF n = 0 THEN j
    ELSE IF j > Len(s) \/ s[j] \notin Digits THEN 0
    ELSE DigitGroups(s,
                     IF j + 1 <= Len(s) /\ s[j + 1] \in SepChars THEN j + 2 ELSE j + 1,
                     n - 1)

\* [-\s]?(?:\d[-\s]?){10} from position j
PhoneRest(s, j) ==
    DigitGroups(s, IF j <= Len(s) /\ s[j] \in SepChars THEN j + 1 ELSE j, 10)

\* (?:\+?91|0)?[-\s]?(?:\d[-\s]?){10} at position i: the prefix alternatives
\* are tried in the order of the pattern, the empty prefix last.
PhoneEnd(s, i) ==
    LET c1 == IF StartsWithAt(s, i, <<"+", "9", "1">>) THEN PhoneRest(s, i + 3) ELSE 0
        c2 == IF StartsWithAt(s, i, <<"9", "1">>) THEN PhoneRest(s, i + 2) ELSE 0
        c3 == IF StartsWithAt(s, i, <<"0">>) THEN PhoneRest(s, i + 1) ELSE 0
        c4 == PhoneRest(s, i)
    IN  IF c1 > 0 THEN c1
        ELSE IF c2 > 0 THEN c2
        ELSE IF c3 > 0 THEN c3
        ELSE c4

\* \b\d{9,18}\b at position i: a whole run of 9 to 18 digits with no word
\* character on either side
BankEnd(s, i) ==
    LET e == RunEnd(s, i, Digits) IN
    IF /\ s[i] \in Digits
       /\ (i = 1 \/ s[i - 1] \notin WordChars)
       /\ e - i >= 9 /\ e - i <= 18
       /\ (e > Len(s) \/ s[e] \notin WordChars)
    THEN e
    ELSE 0

\* re.sub(r"\D", "", n)
DigitsOnly(s) == SelectSeq(s, LAMBDA c : c \in Digits)

\* clean_n[-10:]
Last10(s) == SubSeq(s, Len(s) - 9, Len(s))

\* main.py line 103
triggers == {
    <<"u", "r", "g", "e", "n", "t">>,
    <<"v", "e", "r", "i", "f", "y">>,
    <<"b", "l", "o", "c", "k", "e", "d">>,
    <<"k", "y", "c">>,
    <<"p", "a", "y">>,
    <<"o", "t", "p">>,
    <<"c", "l", "i", "c", "k">>,
    <<"a", "p", "k">>,
    <<"a", "c", "c", "o", "u", "n", "t">>,
    <<"s", "u", "s", "p", "e", "n", "d", "e", "d">>,
    <<"r", "e", "w", "a", "r", "d">> }

\* The five lists are built from sets and their order is never read: sets.
extract_intel(text) ==
    LET tc       == text_clean(text)
        upis     == FindAll(tc, [i \in 1..Len(tc) |-> UpiEnd(tc, i)], 1)
        links    == FindAll(tc, [i \in 1..Len(tc) |-> LinkEnd(tc, i)], 1)
        raw_nums == FindAll(tc, [i \in 1..Len(tc) |-> PhoneEnd(tc, i)], 1)
        phones   == {Last10(DigitsOnly(n)) :
                        n \in {m \in raw_nums :
                                 /\ Len(DigitsOnly(m)) >= 10
                                 /\ Last10(DigitsOnly(m))[1] \in {"5", "6", "7", "8", "9"}}}
        raw_digits == FindAll(tc, [i \in 1..Len(tc) |-> BankEnd(tc, i)], 1)
        banks    == {d \in raw_digits :
                        /\ ~ \E p \in phones : Contains(p, d)
                        /\ Len(d) > 6}
        kws      == {t \in triggers : Contains(Lower(tc), t)}
    IN  [upiIds |-> upis, phishingLinks |-> links, phoneNumbers |-> phones,
         bankAccounts |-> banks, suspiciousKeywords |-> kws]

(***************************************************************************)
(* Bounds of the model and constants of the program.                       *)
(***************************************************************************)

\* how many inbound messages a behaviour handles
MaxMessages == 20

\* how many session dicts can be alive at once
MaxObj == 3

\* main.py line 252
MAX_TURNS == 18

\* main.py line 253
STALL_LIMIT == 4

\* range(3), main.py line 195
MAX_ATTEMPTS == 3

\* the session ids of the inbound requests
SessionIds == {"s1"}

\* the texts of the inbound messages
Texts == {
    <<"h", "e", "l", "l", "o">>,
    <<"p", "a", "y", "@", "u", "p", "i">>,
    <<"c", "a", "l", "l", " ", "9", "8", "7", "6", "5", "4", "3", "2", "1", "0">>,
    <<"V", "e", "r", "i", "f", "y", " ", " ", "O", "T", "P">>,
    <<"w", "w", "w", ".", "x", ".", "i", "o">>,
    <<"a", "/", "c", " ", "1", "2", "3", "4", "5", "6", "7", "8", "9">> }

\* extract_intel of every text, computed once
ExtractTable == [text \in Texts |-> extract_intel(text)]

\* main.py line 221: the trigger vocabulary
TriggerWords == {
    <<"b", "l", "o", "c", "k", "e", "d">>,
    <<"v", "e", "r", "i", "f", "y">>,
    <<"k", "y", "c">>,
    <<"u", "p", "i">>,
    <<"p", "a", "y">>,
    <<"l", "i", "n", "k">>,
    <<"o", "t", "p">>,
    <<"s", "u", "s", "p", "e", "n", "d">> }

\* HasTrigger with the text tested as it came, not lowercased
HasTrigger_CaseSensitive(text) == \E k \in TriggerWords : Contains(text, k)

\* any(k in incoming_text.lower() for k in [...]), main.py line 221
HasTrigger(text) == \E k \in TriggerWords : Contains(Lower(text), k)

TriggerTable == [text \in Texts |-> HasTrigger(text)]

IntelKeys == {"upiIds", "bankAccounts", "phoneNumbers", "phishingLinks",
              "suspiciousKeywords"}

\* main.py lines 55-66
init_session(session_id) ==
    [sessionId |-> session_id,
     turns |-> 0,
     scamDetected |-> FALSE,
     callbackSent |-> FALSE,
     noNewIntelTurns |-> 0,
     intel |-> [k \in IntelKeys |-> {}]]

(***************************************************************************)
(* State.                                                                  *)
(*                                                                         *)
(* A session dict is an object of the heap and is named by its reference:  *)
(* MEMORY_DB keeps references (main.py line 53 stores the dict itself), a  *)
(* handler's  state  is a reference, and the report payload keeps a        *)
(* reference to the intel dict of the session dict it was built from       *)
(* (main.py line 270). Redis keeps values: json.dumps on save, and         *)
(* json.loads builds a fresh dict on every load.                           *)
(***************************************************************************)
VARIABLES
    REDIS_URL,    \* main.py line 24: "" or the URL of the external store
    MEMORY_DB,    \* main.py line 29: session id -> reference of a session dict
    redis,        \* the external store: session id -> value of a session dict
    heap,         \* reference -> session dict
    tasks,        \* the background tasks added so far, in order (line 274)
    threads,      \* the request handlers that run concurrently
    received,     \* how many requests have been answered
    log,          \* the texts of the answered requests (kept by SpecTrace only)
    seen,         \* what the latest request did, as its caller and the stores
                  \* saw it (kept when a request is watched)
    sent          \* the reports as they stood when they were built, in order
                  \* (kept by SpecReport only)

vars == <<REDIS_URL, MEMORY_DB, redis, heap, tasks, threads, received, log,
          seen, sent>>

Refs == 1..MaxObj

\* Python's None, as a reference
None == 0

Threads == {1, 2}

\* the locals of a handler that is not running
IdleLocals == [pc |-> "idle", sessionId |-> "", text |-> <<>>, state |-> None,
               t |-> 0, reply |-> "", closing |-> FALSE, me |-> 0]

\* the smallest reference not in use
NewRef(h) == CHOOSE r \in Refs \ DOMAIN h : \A q \in Refs \ DOMAIN h : r <= q

\* The shared state and one handler's locals, as one value that the steps of
\* main_endpoint transform.
World(h, loc) ==
    [heap |-> h, MEMORY_DB |-> MEMORY_DB, redis |-> redis, tasks |-> tasks,
     sessionId |-> loc.sessionId, text |-> loc.text, state |-> loc.state,
     t |-> loc.t, reply |-> loc.reply, closing |-> loc.closing, me |-> loc.me]

\* get_session with no fallback: None when a call to redis raises
get_session_NoFallback(w, session_id, redis_ok) ==
    IF REDIS_URL # ""
    THEN IF redis_ok /\ session_id \in DOMAIN w.redis
         THEN LET r == NewRef(w.heap) IN
              [heap |-> w.heap @@ (r :> w.redis[session_id]), ret |-> r]
         ELSE [heap |-> w.heap, ret |-> None]
    ELSE IF session_id \in DOMAIN w.MEMORY_DB
         THEN [heap |-> w.heap, ret |-> w.MEMORY_DB[session_id]]
         ELSE [heap |-> w.heap, ret |-> None]

\* main.py lines 31-41. redis_ok: the calls to redis raise nothing. The result
\* is the heap (json.loads makes a new dict) and the reference returned.
get_session(w, session_id, redis_ok) ==
    IF REDIS_URL # "" /\ redis_ok
    THEN IF session_id \in DOMAIN w.redis
         THEN LET r == NewRef(w.heap) IN
              [heap |-> w.heap @@ (r :> w.redis[session_id]), ret |-> r]
         ELSE [heap |-> w.heap, ret |-> None]
    ELSE IF session_id \in DOMAIN w.MEMORY_DB
         THEN [heap |-> w.heap, ret |-> w.MEMORY_DB[session_id]]
         ELSE [heap |-> w.heap, ret |-> None]

\* main.py lines 43-53
save_session(w, session_id, data, redis_ok) ==
    IF REDIS_URL # "" /\ redis_ok
    THEN [w EXCEPT !.redis =
            [k \in DOMAIN @ \cup {session_id} |->
                IF k = session_id THEN w.heap[data] ELSE @[k]]]
    ELSE [w EXCEPT !.MEMORY_DB =
            [k \in DOMAIN @ \cup {session_id} |->
                IF k = session_id THEN data ELSE @[k]]]

\* main.py lines 212-214
LoadState(w, redis_ok) ==
    LET g == get_session(w, w.sessionId, redis_ok) IN
    IF g.ret = None
    THEN LET r == NewRef(g.heap) IN
         [w EXCEPT !.heap = g.heap @@ (r :> init_session(w.sessionId)), !.state = r]
    ELSE [w EXCEPT !.heap = g.heap, !.state = g.ret]

\* main.py line 216, the read of state["turns"] += 1
ReadTurns(w) == [w EXCEPT !.t = w.heap[w.state].turns]

\* WriteTurns with the count frozen once the report has been sent
WriteTurns_FrozenWhenClosed(w) ==
    IF w.heap[w.state].callbackSent THEN w
    ELSE [w EXCEPT !.heap[w.state].turns = w.t + 1]

\* main.py line 216, the write of state["turns"] += 1
WriteTurns(w) == [w EXCEPT !.heap[w.state].turns = w.t + 1]

\* DetectScam with the flag recomputed from every message
DetectScam_Recomputed(w) ==
    [w EXCEPT !.heap[w.state].scamDetected = TriggerTable[w.text]]

\* main.py lines 219-222
DetectScam(w) ==
    IF ~ w.heap[w.state].scamDetected /\ TriggerTable[w.text]
    THEN [w EXCEPT !.heap[w.state].scamDetected = TRUE]
    ELSE w

\* got_new_item with the new items compared to the bundle, not looked up in it
got_new_item_NotEqual(intel, new_data) ==
    \E k \in DOMAIN intel : new_data[k] # {} /\ new_data[k] # intel[k]

\* got_new_item with the keywords left out of the novelty test
got_new_item_NoKeywords(intel, new_data) ==
    \E k \in DOMAIN intel \ {"suspiciousKeywords"} : ~ (new_data[k] \subseteq intel[k])

\* main.py lines 228-233: not new_items.issubset(existing) for some key
got_new_item(intel, new_data) ==
    \E k \in DOMAIN intel : ~ (new_data[k] \subseteq intel[k])

\* merged with the new items put in place of the old ones
merged_Overwrite(intel, new_data) ==
    [k \in DOMAIN intel |-> IF new_data[k] # {} THEN new_data[k] ELSE intel[k]]

\* main.py line 234, for every key
merged(intel, new_data) == [k \in DOMAIN intel |-> intel[k] \cup new_data[k]]

\* stall_counter with the turn that brings the data counted as the first
stall_counter_FromOne(n, got_new) == IF got_new THEN 1 ELSE n + 1

\* main.py lines 236-240
stall_counter(n, got_new) == IF got_new THEN 0 ELSE n + 1

\* main.py lines 225-240
MergeIntel(w) ==
    LET st       == w.heap[w.state]
        new_data == ExtractTable[w.text]
    IN  [w EXCEPT !.heap[w.state].intel = merged(st.intel, new_data),
                  !.heap[w.state].noNewIntelTurns =
                      stall_counter(st.noNewIntelTurns, got_new_item(st.intel, new_data))]

\* main.py lines 114-120
FALLBACK_REPLIES == <<
    "I am trying to pay but it says 'Server Error' on my app. Do you have a different ID?",
    "My internet is very slow. Can you send the bank details via SMS?",
    "I clicked the link but it says 'Page Not Found'. Send a fresh link.",
    "I am not tech savvy. Can you explain step by step where to click?",
    "Wait, let me ask my son to help me with this." >>

\* main.py line 249
NeutralReply == "Hello? Who is this? I missed a call from this number."

\* main.py line 277
ConnectionLost == "Network Error. Connection Lost."

\* no answer of the language model: no key is configured, the call raised or
\* its status was not 200 (main.py lines 136, 164, 166)
NoCompletion == ""

\* what the language model answers when it does (main.py line 165)
Completions == {"Beta my app is stuck. Is there another UPI id?"}

\* main.py lines 134-171. completion: the stripped content of the language
\* model's answer, or NoCompletion; pick: the draw of random.choice.
generate_reply(completion, pick) ==
    IF completion # NoCompletion THEN completion ELSE FALLBACK_REPLIES[pick]

\* main.py lines 243-249. said: what generate_reply returns if it is called.
GenerateReply(w, said) ==
    [w EXCEPT !.reply = IF w.heap[w.state].scamDetected THEN said
                        ELSE NeutralReply]

\* has_critical_data with the phone numbers counted as critical
has_critical_data_WithPhones(st) ==
    \/ Cardinality(st.intel["upiIds"]) > 0
    \/ Cardinality(st.intel["bankAccounts"]) > 0
    \/ Cardinality(st.intel["phishingLinks"]) > 0
    \/ Cardinality(st.intel["phoneNumbers"]) > 0

\* main.py line 256
has_critical_data(st) ==
    \/ Cardinality(st.intel["upiIds"]) > 0
    \/ Cardinality(st.intel["bankAccounts"]) > 0
    \/ Cardinality(st.intel["phishingLinks"]) > 0

\* should_close with the stall limit passed, not reached
should_close_StallPassed(st) ==
    IF st.turns >= MAX_TURNS THEN TRUE
    ELSE IF has_critical_data(st) /\ st.noNewIntelTurns > STALL_LIMIT THEN TRUE
    ELSE FALSE

\* should_close with the turn limit passed, not reached
should_close_TurnsPassed(st) ==
    IF st.turns > MAX_TURNS THEN TRUE
    ELSE IF has_critical_data(st) /\ st.noNewIntelTurns >= STALL_LIMIT THEN TRUE
    ELSE FALSE

\* main.py lines 258-262
should_close(st) ==
    IF st.turns >= MAX_TURNS THEN TRUE
    ELSE IF has_critical_data(st) /\ st.noNewIntelTurns >= STALL_LIMIT THEN TRUE
    ELSE FALSE

\* main.py lines 266-272: the numbers are copied, the intel dict is shared
final_payload(w) ==
    [sessionId |-> w.sessionId,
     scamDetected |-> TRUE,
     totalMessagesExchanged |-> w.heap[w.state].turns,
     extractedIntelligence |-> w.state]

\* A background task that has not started: it runs once the handler that
\* added it has returned. i is the loop variable of send_guvi_callback, out
\* what it printed, posts the bodies it has posted.
NewTask(payload, by) ==
    [payload |-> payload, by |-> by, i |-> 0, pc |-> "queued", out |-> "none",
     posts |-> <<>>]

\* main.py lines 265-274: the test and background_tasks.add_task
StopCheck(w) ==
    IF should_close(w.heap[w.state]) /\ ~ w.heap[w.state].callbackSent
    THEN [w EXCEPT !.tasks = Append(@, NewTask(final_payload(w), w.me)), !.closing = TRUE]
    ELSE [w EXCEPT !.closing = FALSE]

\* MarkSent with the flag never set
MarkSent_Never(w) == w

\* MarkSent with the reply left as it was generated
MarkSent_KeepsReply(w) ==
    IF w.closing THEN [w EXCEPT !.heap[w.state].callbackSent = TRUE] ELSE w

\* main.py lines 276-277
MarkSent(w) ==
    IF w.closing
    THEN [w EXCEPT !.heap[w.state].callbackSent = TRUE, !.reply = ConnectionLost]
    ELSE w

\* main.py line 280
SaveState(w, redis_ok) == save_session(w, w.sessionId, w.state, redis_ok)

\* The session dicts still referenced once the handlers in locs hold their
\* state: by MEMORY_DB, by a running handler, by the payload of a task that
\* has not finished.
Live(w, locs) ==
    {w.MEMORY_DB[k] : k \in DOMAIN w.MEMORY_DB}
      \cup {locs[h].state : h \in DOMAIN locs}
      \cup {w.tasks[n].payload.extractedIntelligence :
               n \in {m \in DOMAIN w.tasks : w.tasks[m].pc # "done"}}

\* the heap without the dicts nothing refers to any more
Collect(h, live) == [r \in DOMAIN h \cap live |-> h[r]]

\* the response is sent: the background tasks the handler added start
StartTasks(ts, by) ==
    [n \in DOMAIN ts |->
        IF ts[n].by = by /\ ts[n].pc = "queued" THEN [ts[n] EXCEPT !.pc = "post"]
        ELSE ts[n]]

EmptyMap == [k \in {} |-> None]

\* What a watched request leaves in seen: its text, whether its read and its
\* write of Redis went through, the record it loaded (w1), the record it
\* saved and the reply it returned (w5), and whether it added the report.
Seen(text, get_ok, save_ok, w1, w5) ==
    [text |-> text, get_ok |-> get_ok, save_ok |-> save_ok,
     start |-> w1.heap[w1.state], end |-> w5.heap[w5.state],
     reply |-> w5.reply, closing |-> w5.closing]

\* the report as the record of the closing request stands when it returns
Snapshot(w) ==
    [sessionId |-> w.sessionId,
     scamDetected |-> TRUE,
     totalMessagesExchanged |-> w.heap[w.state].turns,
     extractedIntelligence |-> w.heap[w.state].intel]

(***************************************************************************)
(* One request handled from its first line to its last with no other       *)
(* handler running: main.py lines 205-282. said is what generate_reply     *)
(* returns if it is called. track says what is kept of the request: "log"  *)
(* its text in log, "turn" what it did in seen, "snap" the report it built *)
(* in sent, "none" nothing.                                                *)
(***************************************************************************)
main_endpoint(session_id, text, get_ok, save_ok, said, track) ==
    /\ received < MaxMessages
    /\ \A h \in Threads : threads[h].pc = "idle"
    /\ Cardinality(DOMAIN heap) < MaxObj
    /\ LET loc == [IdleLocals EXCEPT !.sessionId = session_id, !.text = text]
           w1  == LoadState(World(heap, loc), get_ok)
           w2  == WriteTurns(ReadTurns(w1))
           w3  == GenerateReply(MergeIntel(DetectScam(w2)), said)
           w4  == MarkSent(StopCheck(w3))
           w5  == SaveState(w4, save_ok)
           ts  == StartTasks(w5.tasks, 0)
       IN  /\ MEMORY_DB' = w5.MEMORY_DB
           /\ redis' = w5.redis
           /\ tasks' = ts
           /\ heap' = Collect(w5.heap, Live([w5 EXCEPT !.tasks = ts], threads))
           /\ seen' = IF track = "turn" THEN <<Seen(text, get_ok, save_ok, w1, w5)>>
                      ELSE seen
           /\ sent' = IF track = "snap" /\ w5.closing THEN Append(sent, Snapshot(w5))
                      ELSE sent
    /\ received' = received + 1
    /\ log' = IF track = "log" THEN Append(log, text) ELSE log
    /\ UNCHANGED <<REDIS_URL, threads>>

(***************************************************************************)
(* send_guvi_callback, main.py lines 189-202, one step per blocking call.  *)
(***************************************************************************)

\* json=payload: what requests.post serialises when it is called
Body(n) ==
    [sessionId |-> tasks[n].payload.sessionId,
     scamDetected |-> tasks[n].payload.scamDetected,
     totalMessagesExchanged |-> tasks[n].payload.totalMessagesExchanged,
     extractedIntelligence |-> heap[tasks[n].payload.extractedIntelligence].intel]

\* the task has ended: its payload is dropped
Finish(ts) ==
    /\ tasks' = ts
    /\ heap' = Collect(heap, Live([World(heap, IdleLocals) EXCEPT !.tasks = ts], threads))
    /\ UNCHANGED <<REDIS_URL, MEMORY_DB, redis, threads, received, log, seen, sent>>

\* lines 196-199: the collector answers 2xx
PostSuccess(n) ==
    /\ tasks[n].pc = "post"
    /\ Finish([tasks EXCEPT ![n].posts = Append(@, Body(n)),
                            ![n].out = "Callback Success",
                            ![n].pc = "done"])

\* lines 196-197: the collector answers outside 2xx
PostRejected(n) ==
    /\ tasks[n].pc = "post"
    /\ tasks' = [tasks EXCEPT ![n].posts = Append(@, Body(n)), ![n].pc = "sleep"]
    /\ UNCHANGED <<REDIS_URL, MEMORY_DB, redis, heap, threads, received, log, seen, sent>>

\* lines 196, 201-202: requests.post raises (transport error, timeout)
PostRaises(n) ==
    /\ tasks[n].pc = "post"
    /\ Finish([tasks EXCEPT ![n].posts = Append(@, Body(n)),
                            ![n].out = "Callback Failed",
                            ![n].pc = "done"])

\* line 200, then the next round of the loop or its end
Sleep(n) ==
    /\ tasks[n].pc = "sleep"
    /\ Finish([tasks EXCEPT ![n].i = @ + 1,
                            ![n].pc = IF tasks[n].i + 1 < MAX_ATTEMPTS THEN "post"
                                      ELSE "done"])

send_guvi_callback ==
    \E n \in DOMAIN tasks :
        PostSuccess(n) \/ PostRejected(n) \/ PostRaises(n) \/ Sleep(n)

(***************************************************************************)
(* Init: nothing stored, no handler running, either store configured.      *)
(***************************************************************************)
Init ==
    /\ REDIS_URL \in {"", "redis://store"}
    /\ MEMORY_DB = EmptyMap
    /\ redis = EmptyMap
    /\ heap = EmptyMap
    /\ tasks = <<>>
    /\ threads = [h \in Threads |-> IdleLocals]
    /\ received = 0
    /\ log = <<>>
    /\ seen = <<>>
    /\ sent = <<>>

(***************************************************************************)
(* Spec: the messages of a session are handled one after another, the      *)
(* store (the dict in memory, or Redis when REDIS_URL is set) never fails  *)
(* and no record expires. The background tasks are added and started; how  *)
(* they run is in SpecReport.                                              *)
(***************************************************************************)
\* The reply is returned to the caller and kept nowhere: where no request is
\* watched, one utterance stands for all that generate_reply can return.
AnyReply == generate_reply(NoCompletion, 1)

Request ==
    \E session_id \in SessionIds, text \in Texts :
        main_endpoint(session_id, text, TRUE, TRUE, AnyReply, "none")

Next == Request

Spec == Init /\ [][Next]_vars

(***************************************************************************)
(* SpecReport: as Spec, over fewer texts, with the background task         *)
(* running between the requests.                                           *)
(***************************************************************************)
ReportTexts == {
    <<"h", "e", "l", "l", "o">>,
    <<"p", "a", "y", "@", "u", "p", "i">>,
    <<"c", "a", "l", "l", " ", "9", "8", "7", "6", "5", "4", "3", "2", "1", "0">> }

ReportRequest ==
    \E session_id \in SessionIds, text \in ReportTexts :
        main_endpoint(session_id, text, TRUE, TRUE, AnyReply, "snap")

NextReport == ReportRequest \/ send_guvi_callback

SpecReport == Init /\ [][NextReport]_vars

(***************************************************************************)
(* SpecTrace: as Spec, over fewer texts and fewer requests, with the texts *)
(* of the answered requests kept in log.                                   *)
(***************************************************************************)

\* how many inbound messages a behaviour of SpecTrace handles
MaxTrace == 9

Hello == <<"h", "e", "l", "l", "o">>

PayAtUpi == <<"p", "a", "y", "@", "u", "p", "i">>

VerifyOtp == <<"V", "e", "r", "i", "f", "y", " ", " ", "O", "T", "P">>

TraceTexts == {
    Hello,
    PayAtUpi,
    VerifyOtp }

TraceRequest ==
    /\ received < MaxTrace
    /\ \E session_id \in SessionIds, text \in TraceTexts :
          main_endpoint(session_id, text, TRUE, TRUE, AnyReply, "log")

NextTrace == TraceRequest

SpecTrace == Init /\ [][NextTrace]_vars

(***************************************************************************)
(* SpecConc: the requests of a session are handled by threads that run     *)
(* concurrently (a def endpoint runs in the server's thread pool), one     *)
(* step per group of lines of main_endpoint. A handler's step is atomic;   *)
(* the steps of two handlers interleave in any order.                      *)
(***************************************************************************)

\* how many inbound messages a behaviour of SpecConc handles
MaxConcMessages == 3

ConcTexts == {
    PayAtUpi,
    <<"c", "a", "l", "l", " ", "9", "8", "7", "6", "5", "4", "3", "2", "1", "0">> }

Running == {h \in Threads : threads[h].pc # "idle"}

\* thread h has taken the step that leaves the world w and goes on at pc
Commit(h, w, pc) ==
    /\ MEMORY_DB' = w.MEMORY_DB
    /\ redis' = w.redis
    /\ tasks' = w.tasks
    /\ heap' = w.heap
    /\ threads' = [threads EXCEPT ![h] =
                      [pc |-> pc, sessionId |-> w.sessionId, text |-> w.text,
                       state |-> w.state, t |-> w.t, reply |-> w.reply,
                       closing |-> w.closing, me |-> h]]
    /\ UNCHANGED <<REDIS_URL, received, log, seen, sent>>

\* the server hands a request, one of at most max with a text of texts, to a
\* free thread
Receive(h, texts, max) ==
    /\ threads[h].pc = "idle"
    /\ received + Cardinality(Running) < max
    /\ \E session_id \in SessionIds, text \in texts :
          threads' = [threads EXCEPT ![h] =
                         [IdleLocals EXCEPT !.pc = "load", !.sessionId = session_id,
                                            !.text = text, !.me = h]]
    /\ UNCHANGED <<REDIS_URL, MEMORY_DB, redis, heap, tasks, received, log, seen, sent>>

\* lines 212-214
Load(h) ==
    /\ threads[h].pc = "load"
    /\ Cardinality(DOMAIN heap) < MaxObj
    /\ Commit(h, LoadState(World(heap, threads[h]), TRUE), "read")

\* line 216, the read
TurnsRead(h) ==
    /\ threads[h].pc = "read"
    /\ Commit(h, ReadTurns(World(heap, threads[h])), "write")

\* line 216, the write
TurnsWrite(h) ==
    /\ threads[h].pc = "write"
    /\ Commit(h, WriteTurns(World(heap, threads[h])), "merge")

\* lines 219-240
Merge(h) ==
    /\ threads[h].pc = "merge"
    /\ Commit(h, MergeIntel(DetectScam(World(heap, threads[h]))), "check")

\* lines 242-274
Check(h) ==
    /\ threads[h].pc = "check"
    /\ Commit(h, StopCheck(GenerateReply(World(heap, threads[h]), AnyReply)), "mark")

\* lines 276-277
Mark(h) ==
    /\ threads[h].pc = "mark"
    /\ Commit(h, MarkSent(World(heap, threads[h])), "save")

\* line 280
Save(h) ==
    /\ threads[h].pc = "save"
    /\ Commit(h, SaveState(World(heap, threads[h]), TRUE), "return")

\* line 282: the response is sent and the background task starts
Return(h) ==
    /\ threads[h].pc = "return"
    /\ LET ts   == StartTasks(tasks, h)
           locs == [threads EXCEPT ![h] = IdleLocals]
       IN  /\ tasks' = ts
           /\ threads' = locs
           /\ heap' = Collect(heap, Live([World(heap, IdleLocals) EXCEPT !.tasks = ts], locs))
    /\ received' = received + 1
    /\ log' = Append(log, threads[h].text)
    /\ UNCHANGED <<REDIS_URL, MEMORY_DB, redis, seen, sent>>

Handler(h) ==
    \/ Receive(h, ConcTexts, MaxConcMessages) \/ Load(h) \/ TurnsRead(h) \/ TurnsWrite(h) \/ Merge(h)
    \/ Check(h) \/ Mark(h) \/ Save(h) \/ Return(h)

NextConc == \E h \in Threads : Handler(h)

SpecConc == Init /\ [][NextConc]_vars

(***************************************************************************)
(* SpecRace: as SpecConc over one text and more messages, where a request  *)
(* that arrives while no handler runs may also be handled in one step.     *)
(***************************************************************************)

\* how many inbound messages a behaviour of SpecRace handles
MaxRaceMessages == 6

RaceTexts == {PayAtUpi}

RaceRequest ==
    /\ received < MaxRaceMessages
    /\ \E session_id \in SessionIds, text \in RaceTexts :
          main_endpoint(session_id, text, TRUE, TRUE, AnyReply, "none")

RaceHandler(h) ==
    \/ Receive(h, RaceTexts, MaxRaceMessages) \/ Load(h) \/ TurnsRead(h)
    \/ TurnsWrite(h) \/ Merge(h) \/ Check(h) \/ Mark(h) \/ Save(h) \/ Return(h)

NextRace == RaceRequest \/ \E h \in Threads : RaceHandler(h)

SpecRace == Init /\ [][NextRace]_vars

(***************************************************************************)
(* SpecReply: as Spec over three texts, where every request is watched and *)
(* generate_reply, when it is called, returns the language model's answer  *)
(* or any entry of FALLBACK_REPLIES.                                       *)
(***************************************************************************)
ReplyTexts == {Hello, PayAtUpi, VerifyOtp}

ReplyRequest ==
    \E session_id \in SessionIds, text \in ReplyTexts,
       completion \in Completions \cup {NoCompletion},
       pick \in DOMAIN FALLBACK_REPLIES :
        main_endpoint(session_id, text, TRUE, TRUE,
                      generate_reply(completion, pick), "turn")

NextReply == ReplyRequest

SpecReply == Init /\ [][NextReply]_vars

(***************************************************************************)
(* SpecRedis: as Spec with REDIS_URL set, over two texts, where each call  *)
(* to Redis, the read of get_session and the write of save_session, goes   *)
(* through or raises (the server is down, the network drops), in any       *)
(* pattern. Every request is watched.                                      *)
(***************************************************************************)

\* how many inbound messages a behaviour of SpecRedis handles
MaxRedisMessages == 7

RedisTexts == {Hello, PayAtUpi}

InitRedis == Init /\ REDIS_URL # ""

RedisRequest ==
    /\ received < MaxRedisMessages
    /\ \E session_id \in SessionIds, text \in RedisTexts, get_ok, save_ok \in BOOLEAN :
          main_endpoint(session_id, text, get_ok, save_ok, AnyReply, "turn")

NextRedis == RedisRequest

SpecRedis == InitRedis /\ [][NextRedis]_vars

(***************************************************************************)
(* The session record as the next request will load it (main.py lines     *)
(* 211-214) when the store does not fail.                                  *)
(***************************************************************************)
Session(session_id) ==
    IF REDIS_URL # ""
    THEN IF session_id \in DOMAIN redis THEN redis[session_id]
         ELSE init_session(session_id)
    ELSE IF session_id \in DOMAIN MEMORY_DB THEN heap[MEMORY_DB[session_id]]
         ELSE init_session(session_id)

\* the record of the one session of the model
Rec == Session("s1")

\* the background tasks added for a session
Dispatches(session_id) ==
    {n \in DOMAIN tasks : tasks[n].payload.sessionId = session_id}

(***************************************************************************)
(* Claims.                                                                 *)
(***************************************************************************)

\* C1: over any sequence of messages handled one after another for a
\* session, the report dispatch is scheduled 0 or 1 times in total, and once
\* report-sent is true exactly one dispatch has been scheduled and no later
\* turn adds another, whatever the delivery attempts have answered.
C1_AtMostOnce ==
    \A sid \in SessionIds :
        /\ Cardinality(Dispatches(sid)) <= 1
        /\ Session(sid).callbackSent => Cardinality(Dispatches(sid)) = 1

\* C1 witness: the delivery has failed for good and turns have been handled
\* after the closing turn.
C1_Witness ==
    /\ Len(tasks) = 1
    /\ tasks[1].pc = "done"
    /\ tasks[1].out # "Callback Success"
    /\ Rec.callbackSent
    /\ Rec.turns > tasks[1].payload.totalMessagesExchanged + 1

\* C3: on every turn the report is dispatched if and only if report-sent was
\* false before the turn and, on the record as it is after the turn's
\* increment, merge and stall update, turns >= 18 or (one of upiIds,
\* bankAccounts, phishingLinks is non-empty and the stall counter >= 4).
C3_DispatchIff ==
    [][ (Len(tasks') = Len(tasks) + 1)
          <=> /\ ~ Rec.callbackSent
              /\ \/ Rec'.turns >= 18
                 \/ /\ \/ Rec'.intel["upiIds"] # {}
                       \/ Rec'.intel["bankAccounts"] # {}
                       \/ Rec'.intel["phishingLinks"] # {}
                    /\ Rec'.noNewIntelTurns >= 4 ]_vars

\* C3 witness: the report has been dispatched on the last turn, before turn
\* 18, on a bank account alone.
C3_Witness ==
    /\ Len(tasks) = 1
    /\ tasks[1].payload.totalMessagesExchanged = Rec.turns
    /\ Rec.turns < 18
    /\ Rec.intel["upiIds"] = {} /\ Rec.intel["phishingLinks"] = {}
    /\ Rec.intel["bankAccounts"] # {}

\* C4: after any completed turn with turns >= 18 report-sent is true; and a
\* session whose messages so far held no trigger token and no artifact has
\* no report before turn 18 and, at turn 18, one report, dispatched on turn
\* 18 with an empty bundle.
C4_MaxTurns ==
    LET quiet == /\ ~ Rec.scamDetected
                 /\ \A k \in IntelKeys : Rec.intel[k] = {}
    IN  /\ Rec.turns >= 18 => Rec.callbackSent
        /\ quiet /\ Rec.turns < 18 => ~ Rec.callbackSent /\ tasks = <<>>
        /\ quiet /\ Rec.turns >= 18 =>
              /\ Len(tasks) = 1
              /\ tasks[1].payload.totalMessagesExchanged = 18
              /\ \A k \in IntelKeys : Body(1).extractedIntelligence[k] = {}

\* C4 witness: 18 messages with no trigger and no artifact have been handled.
C4_Witness ==
    /\ Rec.turns = 18
    /\ ~ Rec.scamDetected
    /\ \A k \in IntelKeys : Rec.intel[k] = {}
    /\ Rec.callbackSent

\* the handle pay@upi comes first on turn 5 and turns 6, 7 and 8 repeat it
C5_Scenario ==
    /\ Len(log) >= 8
    /\ \A n \in 1..4 : log[n] # PayAtUpi
    /\ \A n \in 5..8 : log[n] = PayAtUpi

\* C5 as stated: in that session the stall counter is 4 after turn 8 and the
\* report has been dispatched on turn 8.
C5_ClosesAtTurn8 ==
    C5_Scenario /\ Len(log) = 8 =>
        /\ Rec.noNewIntelTurns = 4
        /\ Rec.callbackSent
        /\ Len(tasks) = 1
        /\ tasks[1].payload.totalMessagesExchanged = 8

\* C5 as amended: in that session the stall counter is 3 after turn 8 (turn 5
\* brought the handle, so it reset the counter) and no report has been
\* dispatched; when turn 9 repeats the handle once more the stall counter
\* reaches 4 and the report is dispatched on turn 9.
C5_ClosesAtTurn9 ==
    /\ C5_Scenario /\ Len(log) = 8 =>
          /\ Rec.noNewIntelTurns = 3
          /\ ~ Rec.callbackSent
          /\ tasks = <<>>
    /\ C5_Scenario /\ Len(log) = 9 /\ log[9] = PayAtUpi =>
          /\ Rec.noNewIntelTurns = 4
          /\ Rec.callbackSent
          /\ Len(tasks) = 1
          /\ tasks[1].payload.totalMessagesExchanged = 9

\* C5 witness: the handle came on turn 5 and was repeated on turns 6 to 9.
C5_Witness ==
    /\ C5_Scenario
    /\ Len(log) = 9
    /\ log[9] = PayAtUpi
    /\ Rec.callbackSent

\* C6 as stated: in every reachable state report-sent implies
\* scam-triggered (Closed is entered from Engaged only).
C6_ClosedImpliesEngaged == Rec.callbackSent => Rec.scamDetected

\* C6 as amended: scam-triggered and report-sent are each set once and never
\* cleared, so no engagement state is revisited; Closed is entered from
\* Engaged or directly from Dormant.
C6_NoStateRevisited ==
    [][ /\ Rec.scamDetected => Rec'.scamDetected
        /\ Rec.callbackSent => Rec'.callbackSent ]_vars

\* C6 witness: a session Closed from Engaged that has handled a later
\* message with no trigger token.
C6_Witness ==
    /\ Rec.callbackSent
    /\ Rec.scamDetected
    /\ Len(tasks) = 1
    /\ Rec.turns > tasks[1].payload.totalMessagesExchanged
    /\ Rec.noNewIntelTurns > 0

\* C7: while no message of the session has yielded a payment handle, a bank
\* account or a link, the report is dispatched on no turn before turn 18
\* whatever the stall counter, and is dispatched on turn 18.
C7_PhoneOnlyNeverStalls ==
    (/\ Rec.intel["upiIds"] = {}
     /\ Rec.intel["bankAccounts"] = {}
     /\ Rec.intel["phishingLinks"] = {})
    => /\ Rec.callbackSent <=> Rec.turns >= 18
       /\ Rec.turns < 18 => tasks = <<>>
       /\ Rec.turns >= 18 =>
             /\ Len(tasks) = 1
             /\ tasks[1].payload.totalMessagesExchanged = 18

\* C7 witness: a phone number is the only artifact, it has been repeated for
\* more than four turns and the session is still open before turn 18.
C7_Witness ==
    /\ Rec.intel["phoneNumbers"] # {}
    /\ Rec.intel["upiIds"] = {}
    /\ Rec.intel["bankAccounts"] = {}
    /\ Rec.intel["phishingLinks"] = {}
    /\ Rec.intel["suspiciousKeywords"] = {}
    /\ Rec.noNewIntelTurns > 4
    /\ Rec.turns < 18
    /\ ~ Rec.callbackSent

\* C8: the turn count is 0 for an unseen session id and after n messages
\* handled one after another it is n: it goes up by exactly 1 per message,
\* also on the turns after the report has been sent.
C8_TurnsCountMessages ==
    /\ [](Rec.turns = received)
    /\ [][Rec'.turns = Rec.turns + 1]_vars

\* C8 witness: a message has been handled after the report was sent.
C8_Witness ==
    /\ Rec.callbackSent
    /\ Len(tasks) = 1
    /\ Rec.turns = tasks[1].payload.totalMessagesExchanged + 2

\* the bundle gains an element on the step
Gains == \E k \in IntelKeys : Rec'.intel[k] \ Rec.intel[k] # {}

\* C9: on every turn the stall counter becomes 0 if the message adds to any
\* of the five sets an element that was not there, and its previous value
\* plus 1 otherwise, before and after the trigger and the report.
C9_StallCounter ==
    [][ Rec'.noNewIntelTurns = IF Gains THEN 0 ELSE Rec.noNewIntelTurns + 1 ]_vars

\* C9 witness: after the report was sent, with the trigger never fired, a
\* message has added an element and the counter is 0.
C9_Witness ==
    /\ Rec.callbackSent
    /\ ~ Rec.scamDetected
    /\ Len(tasks) = 1
    /\ Rec.turns > tasks[1].payload.totalMessagesExchanged
    /\ Rec.noNewIntelTurns = 0

\* C10: on every turn each of the five sets becomes its previous value
\* united with the candidates extracted from that turn's message, so it
\* contains its value after every earlier turn.
C10_SetsOnlyGrow ==
    [][ \A k \in IntelKeys :
          /\ Rec'.intel[k] = Rec.intel[k] \cup ExtractTable[log'[Len(log')]][k]
          /\ Rec.intel[k] \subseteq Rec'.intel[k] ]_vars

\* C10 witness: the keywords of two messages have been collected after a
\* handle, and a later message has added nothing.
C10_Witness ==
    /\ Rec.intel["upiIds"] # {}
    /\ Cardinality(Rec.intel["suspiciousKeywords"]) = 3
    /\ Rec.noNewIntelTurns > 0

\* C2: when the messages of a session are handled concurrently, the record
\* once all of them have been answered is the record of some serial order:
\* the turn count is the number of messages and every artifact of every
\* message is in the bundle.
C2_NoLostUpdate ==
    Running = {} =>
        /\ Rec.turns = received
        /\ \A n \in 1..Len(log) : \A k \in IntelKeys :
              ExtractTable[log[n]][k] \subseteq Rec.intel[k]

\* the text of the turn that a step of SpecTrace handles
LastText == log[Len(log)]

\* whether a text holds, in any case of its letters, a token of the trigger
\* vocabulary
C11_Triggering ==
    [text \in TraceTexts |-> \E k \in TriggerWords : Contains(Lower(text), k)]

\* C11: scam-triggered after a turn is true if and only if it was true
\* before the turn or the turn's message contains, case-insensitively, a
\* token of the trigger vocabulary; once true it stays true.
C11_TriggerSetOnce ==
    [][ /\ Rec'.scamDetected <=> (Rec.scamDetected \/ C11_Triggering[LastText'])
        /\ Rec.scamDetected => Rec'.scamDetected ]_vars

\* C11 witness: a message in capitals fired the trigger on the first turn and
\* a message with no token has come later.
C11_Witness ==
    /\ Len(log) >= 2
    /\ log[1] = VerifyOtp
    /\ LastText = Hello
    /\ Rec.scamDetected

\* C12: on every turn, merging the turn's candidate sets a second time into
\* the bundle the turn has produced yields the same bundle and reports no
\* novelty; and a turn that repeats the text of the turn before leaves the
\* bundle as it was and counts as a stall.
C12_MergeIdempotent ==
    [][ /\ merged(Rec'.intel, ExtractTable[LastText']) = Rec'.intel
        /\ ~ got_new_item(Rec'.intel, ExtractTable[LastText'])
        /\ (Len(log) >= 1 /\ LastText' = LastText) =>
              /\ Rec'.intel = Rec.intel
              /\ Rec'.noNewIntelTurns = Rec.noNewIntelTurns + 1 ]_vars

\* C12 witness: a text that brings a handle and a keyword has been merged
\* twice in a row into a bundle that held other keywords.
C12_Witness ==
    /\ Len(log) >= 3
    /\ log[Len(log) - 2] = VerifyOtp
    /\ log[Len(log) - 1] = PayAtUpi
    /\ LastText = PayAtUpi
    /\ Rec.noNewIntelTurns = 1

\* C13: the dispatcher never makes more than 3 attempts, makes none after
\* the first 2xx answer, and a dispatch that has ended without a 2xx answer
\* has made all 3 attempts, whatever made an attempt fail (an answer outside
\* 2xx, a transport error, a timeout).
C13_RetriesUntilThree ==
    \A n \in DOMAIN tasks :
        /\ Len(tasks[n].posts) <= MAX_ATTEMPTS
        /\ tasks[n].out = "Callback Success" => tasks[n].pc = "done"
        /\ (tasks[n].pc = "done" /\ tasks[n].out # "Callback Success") =>
              Len(tasks[n].posts) = MAX_ATTEMPTS

\* C14: a dispatch that has ended without a 2xx answer has logged a failure.
C14_FailureLogged ==
    \A n \in DOMAIN tasks :
        (tasks[n].pc = "done" /\ tasks[n].out # "Callback Success") =>
            tasks[n].out = "Callback Failed"

\* the record of a session in one of the two stores, a new record if none
InRedis(session_id) ==
    IF session_id \in DOMAIN redis THEN redis[session_id]
    ELSE init_session(session_id)

InMemory(session_id) ==
    IF session_id \in DOMAIN MEMORY_DB THEN heap[MEMORY_DB[session_id]]
    ELSE init_session(session_id)

\* every reply main_endpoint can return
Replies ==
    {NeutralReply, ConnectionLost} \cup Completions
        \cup {FALLBACK_REPLIES[i] : i \in DOMAIN FALLBACK_REPLIES}

\* C15: whichever of the Redis read and the Redis write of a turn fail, the
\* request is answered: a failed read is served from the process-local dict
\* and a failed write goes to it, the turn is counted, its artifacts are
\* merged, the trigger is applied, the record is saved and a reply returned.
C15_FallsBack ==
    [][ /\ received' = received + 1
        /\ seen'[1].start = IF seen'[1].get_ok THEN InRedis("s1") ELSE InMemory("s1")
        /\ seen'[1].end.turns = seen'[1].start.turns + 1
        /\ seen'[1].end.intel = merged(seen'[1].start.intel, ExtractTable[seen'[1].text])
        /\ seen'[1].end.scamDetected =
              (seen'[1].start.scamDetected \/ TriggerTable[seen'[1].text])
        /\ IF seen'[1].save_ok
           THEN InRedis("s1")' = seen'[1].end /\ MEMORY_DB' = MEMORY_DB
           ELSE InMemory("s1")' = seen'[1].end /\ redis' = redis
        /\ seen'[1].reply \in Replies ]_vars

\* C15 witness: a turn whose read and write both failed was served from the
\* process-local dict, which an earlier failed write had filled, while Redis
\* held an older record.
C15_Witness ==
    /\ seen # <<>>
    /\ ~ seen[1].get_ok /\ ~ seen[1].save_ok
    /\ seen[1].start.turns >= 1
    /\ "s1" \in DOMAIN redis
    /\ InMemory("s1").turns = seen[1].start.turns + 1

\* C17: with Redis reads and writes failing in any pattern, at most one
\* report is scheduled for a session over turns handled one after another.
C17_AtMostOnceWithFailures ==
    \A sid \in SessionIds : Len(SelectSeq(tasks, LAMBDA t : t.payload.sessionId = sid)) <= 1

\* C18: with Redis reads and writes failing in any pattern, every turn
\* starts from the record the turn before it saved: the turn count never
\* decreases and scamDetected never goes back to false.
C18_ReadYourWrites ==
    [][ seen # <<>> =>
          /\ seen'[1].start = seen[1].end
          /\ seen'[1].end.turns > seen[1].end.turns
          /\ seen[1].end.scamDetected => seen'[1].end.scamDetected ]_vars

\* C16: when messages of a session are handled concurrently, in any
\* interleaving of their steps, the report is scheduled at most once for the
\* session.
C16_AtMostOnceConcurrent ==
    \A sid \in SessionIds : Cardinality(Dispatches(sid)) <= 1

\* C19: every body posted for a report, on the first attempt and on every
\* retry, carries the five intelligence lists and the message total that the
\* session record had at the end of the closing turn, whatever turns have
\* been handled since.
C19_PayloadIsSnapshot ==
    \A n \in DOMAIN tasks :
        \A i \in DOMAIN tasks[n].posts : tasks[n].posts[i] = sent[n]

\* what generate_reply can return
Utterances ==
    Completions \cup {FALLBACK_REPLIES[i] : i \in DOMAIN FALLBACK_REPLIES}

=============================================================================
